---- MODULE Spec2Model ----
(***************************************************************************)
(* windows_availability.h: the version-string parser, the platform test    *)
(* and the lazily loaded live-version comparison.                          *)
(*                                                                         *)
(* A DWORD is kept at its full 32-bit width as two 16-bit limbs <<hi, lo>>,*)
(* so that the "invalid" major static_cast<DWORD>(-1), the 0x0FFFFFFF      *)
(* build mask and the wrap-around of the decimal accumulation are exact.   *)
(* A string_view is a sequence of one-character strings.                   *)
(***************************************************************************)
EXTENDS Integers, Sequences, FiniteSets, TLC

----------------------------------------------------------------------------
(* DWORD arithmetic *)

Limb == 65536

MaskHi == 4096

D(n) == <<n \div Limb, n % Limb>>

DMax == <<Limb - 1, Limb - 1>>

DLess(a, b) == a[1] < b[1] \/ (a[1] = b[1] /\ a[2] < b[2])

\* v * 10 + d in 32 bits
MulAdd10(v, d) ==
    LET lo == v[2] * 10 + d
    IN  <<(v[1] * 10 + lo \div Limb) % Limb, lo % Limb>>

\* the mask left out
MaskBuildNone(b) == b

\* b & 0x0FFFFFFF
MaskBuild(b) == <<b[1] % MaskHi, b[2]>>

----------------------------------------------------------------------------
(* std::tuple<DWORD, DWORD, DWORD> *)

makeVersion(M, m, b) == <<M, m, b>>

\* the default major left at 0
InvalidVersionZero == makeVersion(D(0), D(0), D(0))

InvalidVersion == makeVersion(DMax, D(0), D(0))

TupleLess(a, b) ==
    \/ DLess(a[1], b[1])
    \/ a[1] = b[1] /\ DLess(a[2], b[2])
    \/ a[1] = b[1] /\ a[2] = b[2] /\ DLess(a[3], b[3])

\* < written for <=
TupleLEStrict(a, b) == TupleLess(a, b)

\* operator<= of std::tuple: !(b < a)
TupleLE(a, b) == ~TupleLess(b, a)

----------------------------------------------------------------------------
(* std::string_view *)

Min(a, b) == IF a < b THEN a ELSE b

\* s.substr(pos)
SubStr(s, pos) == SubSeq(s, pos + 1, Len(s))

\* s.compare(0, n, lit) == 0
CompareEq(s, n, lit) == SubSeq(s, 1, Min(n, Len(s))) = lit

DigitVal ==
    [c \in {"0", "1", "2", "3", "4", "5", "6", "7", "8", "9"} |->
        CASE c = "0" -> 0 [] c = "1" -> 1 [] c = "2" -> 2 [] c = "3" -> 3
          [] c = "4" -> 4 [] c = "5" -> 5 [] c = "6" -> 6 [] c = "7" -> 7
          [] c = "8" -> 8 [] c = "9" -> 9]

\* !(c < '0' || c > '9')
IsDigit(c) == c \in DOMAIN DigitVal

IsSeparator(c) == c = "." \/ c = "_" \/ c = " "

WindowsUpper == <<"W", "i", "n", "d", "o", "w", "s", " ">>
WindowsLower == <<"w", "i", "n", "d", "o", "w", "s", " ">>

\* the prefix compared without its trailing space
checkPlatformNoSpace(s) ==
    \/ CompareEq(s, 7, <<"W", "i", "n", "d", "o", "w", "s">>)
    \/ CompareEq(s, 7, <<"w", "i", "n", "d", "o", "w", "s">>)

checkPlatform(s) == CompareEq(s, 8, WindowsUpper) \/ CompareEq(s, 8, WindowsLower)

----------------------------------------------------------------------------
(* extractVersionNumber(s, v): [ok, s, v] after the call *)

RECURSIVE DigitLoop(_, _)
DigitLoop(s, v) ==
    IF s = <<>> \/ ~IsDigit(s[1])
    THEN [ok |-> TRUE, s |-> s, v |-> v]
    ELSE DigitLoop(SubStr(s, 1), MulAdd10(v, DigitVal[s[1]]))

\* v cleared on entry, so a failed extraction leaves 0 behind
extractVersionNumberClears(s, v) ==
    IF s = <<>>
    THEN [ok |-> FALSE, s |-> s, v |-> D(0)]
    ELSE IF ~IsDigit(s[1])
         THEN [ok |-> FALSE, s |-> SubStr(s, 1), v |-> D(0)]
         ELSE DigitLoop(SubStr(s, 1), D(DigitVal[s[1]]))

extractVersionNumber(s, v) ==
    IF s = <<>>
    THEN [ok |-> FALSE, s |-> s, v |-> v]
    ELSE IF ~IsDigit(s[1])
         THEN [ok |-> FALSE, s |-> SubStr(s, 1), v |-> v]
         ELSE DigitLoop(SubStr(s, 1), D(DigitVal[s[1]]))

----------------------------------------------------------------------------
(* parseWindowsVersion: the locals after each stretch of the function *)

IsVista(s) ==
    CompareEq(s, 5, <<"V", "i", "s", "t", "a">>) \/ CompareEq(s, 5, <<"v", "i", "s", "t", "a">>)

\* only the upper-case spelling compared
IsXPUpperOnly(s) == CompareEq(s, 2, <<"X", "P">>)

IsXP(s) == CompareEq(s, 2, <<"X", "P">>) \/ CompareEq(s, 2, <<"x", "p">>)

\* s = s.substr(8), then the alias names or the leading number
ParseMajor(x) ==
    LET s == SubStr(x, 8)
        p0 == [ok |-> TRUE, s |-> s, reqMajor |-> D(0),
               major |-> D(0), minor |-> D(0), build |-> D(0)]
    IN  IF IsVista(s) THEN [p0 EXCEPT !.reqMajor = D(6)]
        ELSE IF IsXP(s) THEN [p0 EXCEPT !.reqMajor = D(5), !.minor = D(1)]
        ELSE LET e == extractVersionNumber(s, p0.reqMajor)
             IN  [p0 EXCEPT !.ok = e.ok, !.s = e.s, !.reqMajor = e.v]

\* Windows 7 remapped to major 6 with its minor forgotten
RemapMajorSevenNoMinor(p) ==
    LET p1 == [p EXCEPT !.major = p.reqMajor]
        p2 == IF p1.reqMajor = D(7) THEN [p1 EXCEPT !.major = D(6)] ELSE p1
        p3 == IF p2.reqMajor = D(8) THEN [p2 EXCEPT !.major = D(6), !.minor = D(2)] ELSE p2
    IN  IF p3.reqMajor = D(11) THEN [p3 EXCEPT !.major = D(10), !.build = D(22000)] ELSE p3

\* major = reqMajor, then Windows 7, Windows 8, Windows 11
RemapMajor(p) ==
    LET p1 == [p EXCEPT !.major = p.reqMajor]
        p2 == IF p1.reqMajor = D(7) THEN [p1 EXCEPT !.major = D(6), !.minor = D(1)] ELSE p1
        p3 == IF p2.reqMajor = D(8) THEN [p2 EXCEPT !.major = D(6), !.minor = D(2)] ELSE p2
    IN  IF p3.reqMajor = D(11) THEN [p3 EXCEPT !.major = D(10), !.build = D(22000)] ELSE p3

\* s.empty() || (s[0] != '.' && s[0] != '_' && s[0] != ' ')
NoSeparator(s) == s = <<>> \/ ~IsSeparator(s[1])

Named(s, a, b, c, d) == CompareEq(s, 4, <<a, b, c, d>>)

\* s = s.substr(1), then the named updates or the minor number
ParseUpdate(p) ==
    LET s == SubStr(p.s, 1)
        q == [p EXCEPT !.s = s]
    IN  IF p.reqMajor = D(11) /\ Named(s, "2", "2", "H", "2") THEN [q EXCEPT !.build = D(22621)]
        ELSE IF p.reqMajor = D(11) /\ Named(s, "2", "1", "H", "2") THEN [q EXCEPT !.build = D(22000)]
        ELSE IF p.reqMajor = D(10) /\ Named(s, "2", "2", "H", "2") THEN [q EXCEPT !.build = D(19045)]
        ELSE IF p.reqMajor = D(10) /\ Named(s, "2", "1", "H", "2") THEN [q EXCEPT !.build = D(19044)]
        ELSE IF p.reqMajor = D(10) /\ Named(s, "2", "1", "H", "1") THEN [q EXCEPT !.build = D(19043)]
        ELSE IF p.reqMajor = D(10) /\ Named(s, "2", "0", "H", "2") THEN [q EXCEPT !.build = D(19042)]
        ELSE LET e == extractVersionNumber(s, p.minor)
             IN  [q EXCEPT !.ok = e.ok, !.s = e.s, !.minor = e.v]

\* the table of update codes left out
UpdateBuildNoTable(reqMajor, minor) == minor

\* the build a non-zero minor stands for when major == 10
UpdateBuild(reqMajor, minor) ==
    IF reqMajor = D(10) /\ minor = D(2004) THEN D(19041)
    ELSE IF reqMajor = D(10) /\ minor = D(1909) THEN D(18363)
    ELSE IF reqMajor = D(10) /\ minor = D(1903) THEN D(18362)
    ELSE IF reqMajor = D(10) /\ minor = D(1809) THEN D(17763)
    ELSE IF reqMajor = D(10) /\ minor = D(1803) THEN D(17134)
    ELSE IF reqMajor = D(10) /\ minor = D(1709) THEN D(16299)
    ELSE IF reqMajor = D(10) /\ minor = D(1703) THEN D(15063)
    ELSE IF reqMajor = D(10) /\ minor = D(1607) THEN D(14393)
    ELSE IF reqMajor = D(10) /\ minor = D(1511) THEN D(10586)
    ELSE IF reqMajor = D(10) /\ minor = D(1507) THEN D(10240)
    ELSE minor

\* Windows 8.1, then Windows 10 & 11
RemapMinor(p) ==
    LET p1 == IF p.reqMajor = D(8) /\ p.minor = D(1) THEN [p EXCEPT !.minor = D(3)] ELSE p
    IN  IF p1.major = D(10) /\ DLess(D(0), p1.minor)
        THEN [p1 EXCEPT !.build = UpdateBuild(p1.reqMajor, p1.minor), !.minor = D(0)]
        ELSE p1

\* the final extraction written into minor
ParseBuildIntoMinor(p) ==
    LET e == extractVersionNumber(SubStr(p.s, 1), p.minor)
    IN  [p EXCEPT !.ok = e.ok, !.s = e.s, !.minor = e.v]

\* s = s.substr(1), then the build number
ParseBuild(p) ==
    LET e == extractVersionNumber(SubStr(p.s, 1), p.build)
    IN  [p EXCEPT !.ok = e.ok, !.s = e.s, !.build = e.v]

Triple(p) == makeVersion(p.major, p.minor, p.build)

parseWindowsVersion(x) ==
    LET a == ParseMajor(x)
    IN  IF ~a.ok THEN InvalidVersion ELSE
        LET b == RemapMajor(a)
        IN  IF NoSeparator(b.s) THEN Triple(b) ELSE
            LET c == ParseUpdate(b)
            IN  IF ~c.ok THEN Triple(c) ELSE
                LET d == RemapMinor(c)
                IN  IF NoSeparator(d.s) THEN Triple(d) ELSE Triple(ParseBuild(d))

----------------------------------------------------------------------------
(* The string literals handed to the availability check *)

MajorTokens ==
    { <<"V", "i", "s", "t", "a">>, <<"v", "i", "s", "t", "a">>, <<"V", "I", "S", "T", "A">>, <<"X", "P">>,
      <<"x", "p">>, <<"X", "p">>, <<"x", "P">>, <<"6">>,
      <<"7">>, <<"8">>, <<"1", "0">>, <<"1", "1">>,
      <<"x">>, <<"4", "2", "9", "4", "9", "6", "7", "3", "0", "3">> }

MinorTokens ==
    { <<>>, <<"0">>, <<"1">>, <<"2">>,
      <<"3">>, <<"2", "0", "0", "4">>, <<"1", "9", "0", "9">>, <<"1", "9", "0", "3">>,
      <<"1", "8", "0", "9">>, <<"1", "8", "0", "3">>, <<"1", "7", "0", "9">>, <<"1", "7", "0", "3">>,
      <<"1", "6", "0", "7">>, <<"1", "5", "1", "1">>, <<"1", "5", "0", "7">>, <<"1", "2", "3", "4">>,
      <<"0", "2", "0", "0", "4">>, <<"2", "2", "0", "0", "0">>, <<"3", "0", "0", "0", "0">>, <<"2", "2", "H", "2">>,
      <<"2", "1", "H", "2">>, <<"2", "1", "H", "1">>, <<"2", "0", "H", "2">>, <<"2", "2", "h", "2">>,
      <<"x">>, <<"4", "2", "9", "4", "9", "6", "9", "3", "0", "0">> }

TailTokens ==
    { <<>>, <<".">>, <<".", "0">>, <<".", "1", "9", "0", "4", "4">>,
      <<"_", "5">>, <<" ", "x">>, <<".", "2", "5", "0", "0", "0">> }

Separators == { <<".">>, <<"_">>, <<" ">>, <<"-">> }

\* what may follow the platform prefix: major, separator, minor or update code
ShortRemainders ==
    {<<>>} \cup MajorTokens
    \cup {M \o sep \o m : M \in MajorTokens, sep \in Separators, m \in MinorTokens}

\* ... and what may follow that
LongRemainders == {r \o tl : r \in ShortRemainders, tl \in TailTokens}

PlatformInputs ==
    {WindowsUpper \o r : r \in LongRemainders} \cup {WindowsLower \o r : r \in ShortRemainders}

\* strings that name some other platform, or nothing
OtherInputs ==
    { <<>>, <<"W", "i", "n", "d", "o", "w", "s">>,
      <<"W", "I", "N", "D", "O", "W", "S", " ", "1", "0">>, <<"W", "i", "n", "d", "o", "w", "s", "1", "0">>,
      <<"W", "i", "n", "d", "o", "w", "s", "X", "1", "0">>, <<"w", "i", "n", "d", "o", "w", "s", "X", "1", "1">>,
      <<"m", "a", "c", "O", "S", " ", "1", "0", ".", "1", "5">>, <<"W", "i", "n", "d", "o", "w", " ", "7">>,
      <<"i", "n", "d", "o", "w", "s", " ", "1", "0">>, <<" ", "W", "i", "n", "d", "o", "w", "s", " ", "1", "0">>,
      <<"W", "i", "n", "d", "o", "w", "s", "_", "1", "0">>, <<"w", "I", "N", "D", "O", "W", "S", " ", "X", "P">>,
      <<"1", "0", ".", "0">>, <<"X", "P">>,
      <<"W">> }

Inputs == PlatformInputs \cup OtherInputs

----------------------------------------------------------------------------
(* The process: the live version and the calls made so far *)

VARIABLES
    os,             \* what RtlGetNtVersionNumbers reports: <<major, minor, build>>
    majorVersion,   \* static inline DWORD majorVersion
    minorVersion,   \* static inline DWORD minorVersion
    buildVersion,   \* static inline DWORD buildVersion
    queries,        \* how many times RtlGetNtVersionNumbers has been called
    calls,          \* how many calls have returned
    x,              \* the string literal of the call site
    requested,      \* the VersionTuple of the last _isVersionAtLeast call
    result,         \* what the last call returned
    answers,        \* every <<requested, returned>> pair so far
    pc,             \* per thread: where it is in _isVersionAtLeast
    req,            \* per thread: the tuple it asks about
    didLoad,        \* per thread: whether it entered _loadSystemVersion
    pending,        \* per thread: the fields RtlGetNtVersionNumbers has yet to store
    tmp,            \* per thread: buildVersion as read by &=
    obs,            \* per thread: the live tuple as read by the comparison
    res             \* per thread: what its call returned

live == <<majorVersion, minorVersion, buildVersion>>
seqVars == <<queries, calls, x, requested, result, answers>>
thrVars == <<pc, req, didLoad, pending, tmp, obs, res>>
vars == <<os, live, seqVars, thrVars>>

MaxCalls == 2

None == <<>>

\* RtlGetNtVersionNumbers on a few systems; the build carries its tag bits
OSVersions ==
    { <<D(10), D(0), <<61440, 19044>>>>,
      <<D(10), D(0), <<61440, 22621>>>>,
      <<D(6), D(1), <<61440, 7601>>>>,
      <<D(5), D(1), D(2600)>>,
      <<D(0), D(0), D(0)>>,
      <<DMax, D(0), D(0)>> }

NumThreads == 2

Threads == 1..NumThreads

NoThreads ==
    /\ pc = [t \in Threads |-> "idle"]
    /\ req = [t \in Threads |-> None]
    /\ didLoad = [t \in Threads |-> FALSE]
    /\ pending = [t \in Threads |-> {}]
    /\ tmp = [t \in Threads |-> D(0)]
    /\ obs = [t \in Threads |-> <<D(0), D(0), D(0)>>]
    /\ res = [t \in Threads |-> FALSE]

InitLive ==
    /\ os \in OSVersions
    /\ majorVersion = D(0)
    /\ minorVersion = D(0)
    /\ buildVersion = D(0)
    /\ queries = 0
    /\ calls = 0
    /\ requested = None
    /\ result = FALSE
    /\ answers = {}

\* the guard left out: every call loads
NeedsLoadAlways(major) == TRUE

\* if (!majorVersion)
NeedsLoad(major) == major = D(0)

\* _loadSystemVersion
loadSystemVersion ==
    /\ majorVersion' = os[1]
    /\ minorVersion' = os[2]
    /\ buildVersion' = MaskBuild(os[3])
    /\ queries' = queries + 1

\* _isVersionAtLeast(version), run to its return by one thread
isVersionAtLeast(version) ==
    /\ IF NeedsLoad(majorVersion)
       THEN loadSystemVersion
       ELSE UNCHANGED <<live, queries>>
    /\ requested' = version
    /\ result' = TupleLE(version, live')
    /\ answers' = answers \cup {<<version, result'>>}

\* ___windows_available_check(x)
Check ==
    /\ calls < MaxCalls
    /\ calls' = calls + 1
    /\ IF checkPlatform(x)
       THEN isVersionAtLeast(parseWindowsVersion(x))
       ELSE /\ result' = FALSE
            /\ requested' = None
            /\ UNCHANGED <<live, queries, answers>>
    /\ UNCHANGED <<os, x, thrVars>>

Init ==
    /\ InitLive
    /\ x \in Inputs
    /\ NoThreads

Next == Check

Spec == Init /\ [][Next]_vars

----------------------------------------------------------------------------
(* _isVersionAtLeast called directly, one call after another *)

Requests ==
    { <<D(10), D(0), D(19044)>>, <<D(10), D(0), D(19045)>>, <<D(10), D(0), D(0)>>,
      <<D(10), D(0), <<61440, 19044>>>>, <<D(10), D(1), D(0)>>, <<D(11), D(0), D(0)>>,
      <<D(6), D(1), D(7601)>>, <<D(6), D(2), D(0)>>, <<D(5), D(1), D(2600)>>,
      <<D(0), D(0), D(0)>>, <<D(0), D(0), D(1)>>, InvalidVersion }

Call(v) ==
    /\ calls < MaxCalls
    /\ calls' = calls + 1
    /\ isVersionAtLeast(v)
    /\ UNCHANGED <<os, x, thrVars>>

InitOracle ==
    /\ InitLive
    /\ x = <<>>
    /\ NoThreads

NextOracle == \E v \in Requests : Call(v)

SpecOracle == InitOracle /\ [][NextOracle]_vars

----------------------------------------------------------------------------
(* Two threads making their first _isVersionAtLeast calls at once: every      *)
(* read and write of the three statics is a step of its own, and the order  *)
(* of the three stores inside RtlGetNtVersionNumbers is not fixed.           *)

ThreadRequests ==
    { <<D(10), D(0), D(19044)>>, <<D(6), D(1), D(0)>>, <<D(10), D(0), D(0)>> }

Fields == {"major", "minor", "build"}

\* a thread calls _isVersionAtLeast(v)
Enter(t, v) ==
    /\ pc[t] = "idle"
    /\ req' = [req EXCEPT ![t] = v]
    /\ pc' = [pc EXCEPT ![t] = "test"]
    /\ UNCHANGED <<os, live, seqVars, didLoad, pending, tmp, obs, res>>

\* if (!majorVersion) _loadSystemVersion();
Test(t) ==
    /\ pc[t] = "test"
    /\ IF NeedsLoad(majorVersion)
       THEN /\ pc' = [pc EXCEPT ![t] = "query"]
            /\ didLoad' = [didLoad EXCEPT ![t] = TRUE]
            /\ pending' = [pending EXCEPT ![t] = Fields]
            /\ queries' = queries + 1
       ELSE /\ pc' = [pc EXCEPT ![t] = "readMajor"]
            /\ UNCHANGED <<didLoad, pending, queries>>
    /\ UNCHANGED <<os, live, calls, x, requested, result, answers, req, tmp, obs, res>>

\* RtlGetNtVersionNumbers stores one of the three numbers
Store(t, f) ==
    /\ pc[t] = "query"
    /\ f \in pending[t]
    /\ majorVersion' = IF f = "major" THEN os[1] ELSE majorVersion
    /\ minorVersion' = IF f = "minor" THEN os[2] ELSE minorVersion
    /\ buildVersion' = IF f = "build" THEN os[3] ELSE buildVersion
    /\ pending' = [pending EXCEPT ![t] = pending[t] \ {f}]
    /\ pc' = [pc EXCEPT ![t] = IF pending[t] = {f} THEN "maskRead" ELSE "query"]
    /\ UNCHANGED <<os, seqVars, req, didLoad, tmp, obs, res>>

\* buildVersion &= 0x0FFFFFFF: the read
MaskRead(t) ==
    /\ pc[t] = "maskRead"
    /\ tmp' = [tmp EXCEPT ![t] = buildVersion]
    /\ pc' = [pc EXCEPT ![t] = "maskWrite"]
    /\ UNCHANGED <<os, live, seqVars, req, didLoad, pending, obs, res>>

\* buildVersion &= 0x0FFFFFFF: the write
MaskWrite(t) ==
    /\ pc[t] = "maskWrite"
    /\ buildVersion' = MaskBuild(tmp[t])
    /\ pc' = [pc EXCEPT ![t] = "readMajor"]
    /\ UNCHANGED <<os, majorVersion, minorVersion, seqVars, req, didLoad, pending, tmp, obs, res>>

\* std::tie(majorVersion, minorVersion, buildVersion): the reads, in order
ReadMajor(t) ==
    /\ pc[t] = "readMajor"
    /\ obs' = [obs EXCEPT ![t][1] = majorVersion]
    /\ pc' = [pc EXCEPT ![t] = "readMinor"]
    /\ UNCHANGED <<os, live, seqVars, req, didLoad, pending, tmp, res>>

ReadMinor(t) ==
    /\ pc[t] = "readMinor"
    /\ obs' = [obs EXCEPT ![t][2] = minorVersion]
    /\ pc' = [pc EXCEPT ![t] = "readBuild"]
    /\ UNCHANGED <<os, live, seqVars, req, didLoad, pending, tmp, res>>

\* the last read, and return version <= (the tuple read)
ReadBuild(t) ==
    /\ pc[t] = "readBuild"
    /\ obs' = [obs EXCEPT ![t][3] = buildVersion]
    /\ res' = [res EXCEPT ![t] = TupleLE(req[t], obs'[t])]
    /\ pc' = [pc EXCEPT ![t] = "done"]
    /\ UNCHANGED <<os, live, seqVars, req, didLoad, pending, tmp>>

InitMT ==
    /\ InitLive
    /\ x = <<>>
    /\ NoThreads

NextMT ==
    \E t \in Threads :
        \/ \E v \in ThreadRequests : Enter(t, v)
        \/ Test(t)
        \/ \E f \in Fields : Store(t, f)
        \/ MaskRead(t)
        \/ MaskWrite(t)
        \/ ReadMajor(t)
        \/ ReadMinor(t)
        \/ ReadBuild(t)

SpecMT == InitMT /\ [][NextMT]_vars

----------------------------------------------------------------------------
(* What the claims speak of, stated apart from the code's own operators *)

V3(M, m, b) == <<D(M), D(m), D(b)>>

\* the sentinel triple (2^32 - 1, 0, 0)
Sentinel == <<<<65535, 65535>>, <<0, 0>>, <<0, 0>>>>

HasPrefix(s, a) == Len(s) >= Len(a) /\ SubSeq(s, 1, Len(a)) = a

Platform(s) ==
    \/ HasPrefix(s, <<"W", "i", "n", "d", "o", "w", "s", " ">>)
    \/ HasPrefix(s, <<"w", "i", "n", "d", "o", "w", "s", " ">>)

\* what follows the 8-character prefix
Rest(s) == SubSeq(s, 9, Len(s))

\* lexicographic <= on triples of two-limb numbers
NumLE(a, b) == a[1] < b[1] \/ (a[1] = b[1] /\ a[2] <= b[2])
LexLE(a, b) ==
    \/ a[1] # b[1] /\ NumLE(a[1], b[1])
    \/ a[1] = b[1] /\ a[2] # b[2] /\ NumLE(a[2], b[2])
    \/ a[1] = b[1] /\ a[2] = b[2] /\ NumLE(a[3], b[3])

\* (M, m, b mod 2^28)
FinalLive == <<os[1], os[2], <<os[3][1] % 4096, os[3][2]>>>>

Returned == calls >= 1

\* "Windows " followed by r
Win(r) == <<"W", "i", "n", "d", "o", "w", "s", " ">> \o r

\* C3: the vendor's public names parse to their canonical triples.
C3_PublicNames ==
    Returned =>
        /\ x = Win(<<"7">>) => requested = V3(6, 1, 0)
        /\ x = Win(<<"8", ".", "1">>) => requested = V3(6, 3, 0)
        /\ x = Win(<<"1", "1", " ", "2", "1", "H", "2">>) => requested = V3(10, 0, 22000)
        /\ x = Win(<<"1", "1", " ", "2", "2", "H", "2">>) => requested = V3(10, 0, 22621)
        /\ x = Win(<<"1", "0", " ", "2", "0", "0", "4">>) => requested = V3(10, 0, 19041)
        /\ x = Win(<<"X", "P">>) => requested = V3(5, 1, 0)
        /\ x = Win(<<"V", "i", "s", "t", "a">>) => requested = V3(6, 0, 0)

C3_Witness == Returned /\ x = Win(<<"8", ".", "1">>) /\ requested = V3(6, 3, 0)
\* C2: a string without the platform prefix is never available.
C2_OtherPlatformFalse ==
    (Returned /\ ~Platform(x)) => result = FALSE

C2_Witness ==
    /\ Returned
    /\ x = <<"W", "i", "n", "d", "o", "w", "s", "X", "1", "0">>
    /\ os = <<D(10), D(0), <<61440, 19044>>>>
    /\ result = FALSE

AliasSpellings ==
    { <<"V", "i", "s", "t", "a">>, <<"v", "i", "s", "t", "a">>, <<"X", "P">>, <<"x", "p">> }

StartsWithAlias(r) == \E a \in AliasSpellings : HasPrefix(r, a)

StartsWithDigit(r) ==
    r # <<>> /\ r[1] \in {"0", "1", "2", "3", "4", "5", "6", "7", "8", "9"}

Unparseable(s) == Platform(s) /\ ~StartsWithAlias(Rest(s)) /\ ~StartsWithDigit(Rest(s))

\* C4: with neither an alias nor a digit after the prefix the parse is the
\* sentinel, and the sentinel is never satisfied by a live major below 2^32 - 1.
C4_UnparseableIsSentinel ==
    (Returned /\ Unparseable(x)) =>
        /\ requested = Sentinel
        /\ os[1] # <<65535, 65535>> => result = FALSE

C4_Witness ==
    /\ Returned
    /\ x = Win(<<>>)
    /\ requested = Sentinel
    /\ os[1] = D(10)
    /\ result = FALSE
Lower(c) ==
    CASE c = "V" -> "v" [] c = "I" -> "i" [] c = "S" -> "s" [] c = "T" -> "t"
      [] c = "A" -> "a" [] c = "X" -> "x" [] c = "P" -> "p" [] OTHER -> c

\* r begins with some capitalisation of word
CapitalisationOf(r, word) ==
    Len(r) >= Len(word) /\ \A i \in 1..Len(word) : Lower(r[i]) = word[i]

VistaWord == <<"v", "i", "s", "t", "a">>
XPWord == <<"x", "p">>

\* C8 as stated: every capitalisation of the alias names is recognised.
C8_AnyCapitalisation ==
    (Returned /\ Platform(x)) =>
        /\ CapitalisationOf(Rest(x), VistaWord) => requested = V3(6, 0, 0)
        /\ CapitalisationOf(Rest(x), XPWord) => requested = V3(5, 1, 0)

\* C8 amended: exactly "Vista"/"vista" give (6,0,0) and "XP"/"xp" give (5,1,0);
\* every other capitalisation of the two names parses to the sentinel.
C8_TwoSpellingsOnly ==
    (Returned /\ Platform(x)) =>
        /\ CapitalisationOf(Rest(x), VistaWord) =>
              requested = IF HasPrefix(Rest(x), <<"V", "i", "s", "t", "a">>)
                             \/ HasPrefix(Rest(x), <<"v", "i", "s", "t", "a">>)
                          THEN V3(6, 0, 0) ELSE Sentinel
        /\ CapitalisationOf(Rest(x), XPWord) =>
              requested = IF HasPrefix(Rest(x), <<"X", "P">>) \/ HasPrefix(Rest(x), <<"x", "p">>)
                          THEN V3(5, 1, 0) ELSE Sentinel

C8_Witness ==
    /\ Returned
    /\ x = Win(<<"V", "I", "S", "T", "A">>)
    /\ requested = Sentinel

\* decimal tokens and the numbers they denote
NumberTokens ==
    { <<<<"1">>, 1>>,
      <<<<"2">>, 2>>,
      <<<<"3">>, 3>>,
      <<<<"2", "0", "0", "4">>, 2004>>,
      <<<<"1", "9", "0", "9">>, 1909>>,
      <<<<"1", "9", "0", "3">>, 1903>>,
      <<<<"1", "8", "0", "9">>, 1809>>,
      <<<<"1", "8", "0", "3">>, 1803>>,
      <<<<"1", "7", "0", "9">>, 1709>>,
      <<<<"1", "7", "0", "3">>, 1703>>,
      <<<<"1", "6", "0", "7">>, 1607>>,
      <<<<"1", "5", "1", "1">>, 1511>>,
      <<<<"1", "5", "0", "7">>, 1507>>,
      <<<<"1", "2", "3", "4">>, 1234>>,
      <<<<"0", "2", "0", "0", "4">>, 2004>>,
      <<<<"2", "2", "0", "0", "0">>, 22000>>,
      <<<<"3", "0", "0", "0", "0">>, 30000>>,
      <<<<"0">>, 0>> }

\* the fixed table of Windows 10 update codes; any other number stands for itself
ListedBuild(n) ==
    CASE n = 2004 -> 19041 [] n = 1909 -> 18363 [] n = 1903 -> 18362
      [] n = 1809 -> 17763 [] n = 1803 -> 17134 [] n = 1709 -> 16299
      [] n = 1703 -> 15063 [] n = 1607 -> 14393 [] n = 1511 -> 10586
      [] n = 1507 -> 10240 [] OTHER -> n

\* C9: "Windows 10" + separator + non-zero number n parses to (10, 0, b), b the
\* listed build of n, or n itself when n is not listed.
C9_Windows10UpdateCode ==
    (Returned /\ Platform(x) /\ Len(x) >= 12 /\ SubSeq(x, 9, 10) = <<"1", "0">>
              /\ x[11] \in {".", "_", " "}) =>
        \A nt \in NumberTokens :
            (nt[2] # 0 /\ SubSeq(x, 12, Len(x)) = nt[1])
                => requested = V3(10, 0, ListedBuild(nt[2]))

C9_Witness ==
    /\ Returned
    /\ x = Win(<<"1", "0", "_", "1", "9", "0", "9">>)
    /\ requested = V3(10, 0, 18363)
\* the parser's locals where it looks for the first separator, and for the second
AfterMajor(s) == RemapMajor(ParseMajor(s))
AfterMinor(s) == RemapMinor(ParseUpdate(AfterMajor(s)))

\* the major is resolved, a separator follows, and the minor extraction fails
MinorFails(s) ==
    /\ ParseMajor(s).ok
    /\ ~NoSeparator(AfterMajor(s).s)
    /\ ~ParseUpdate(AfterMajor(s)).ok

\* the parse reaches the final extraction, and it fails
BuildFails(s) ==
    /\ ParseMajor(s).ok
    /\ ~NoSeparator(AfterMajor(s).s)
    /\ ParseUpdate(AfterMajor(s)).ok
    /\ ~NoSeparator(AfterMinor(s).s)
    /\ ~ParseBuild(AfterMinor(s)).ok

\* C10: a failed minor extraction returns the triple assembled before it, and a
\* failed build extraction leaves the build computed before it unchanged.
C10_FailureOnlyTruncates ==
    (Returned /\ Platform(x)) =>
        /\ MinorFails(x) =>
              requested = <<AfterMajor(x).major, AfterMajor(x).minor, AfterMajor(x).build>>
        /\ BuildFails(x) =>
              requested = <<AfterMinor(x).major, AfterMinor(x).minor, AfterMinor(x).build>>
        /\ x = Win(<<"7", ".", "x">>) => requested = V3(6, 1, 0)
        /\ x = Win(<<"1", "1", "_">>) => requested = V3(10, 0, 22000)
        /\ x = Win(<<"1", "1", ".", "0", " ", "x">>) => requested = V3(10, 0, 22000)
        /\ x = Win(<<"1", "0", " ", "2", "0", "0", "4", ".">>) => requested = V3(10, 0, 19041)

C10_Witness ==
    /\ Returned
    /\ x = Win(<<"1", "1", ".", "0", " ", "x">>)
    /\ BuildFails(x)
    /\ requested = V3(10, 0, 22000)

IsSep(c) == c \in {".", "_", " "}

\* the places after the prefix where s can be cut at a separator
Cuts(s) == {i \in 9..Len(s) : IsSep(s[i])}

FirstCut(s) == CHOOSE i \in Cuts(s) : \A j \in Cuts(s) : i <= j

Truncated(s, i) == SubSeq(s, 1, i - 1)

\* C6 as stated: every truncation at a separator parses to no more than the
\* full string does.
C6_TruncationWeaker ==
    (Returned /\ Platform(x) /\ requested # Sentinel) =>
        \A i \in Cuts(x) : LexLE(parseWindowsVersion(Truncated(x, i)), requested)

\* C6 amended: cutting at the first separator is weaker when the requested major
\* is none of 7, 8, 11; cutting at a later one is weaker when the parsed major is
\* not 10.
C6_TruncationWeakerWithoutDefaults ==
    (Returned /\ Platform(x) /\ requested # Sentinel) =>
        \A i \in Cuts(x) :
            \/ i = FirstCut(x) /\ ParseMajor(x).reqMajor \in {D(7), D(8), D(11)}
            \/ i # FirstCut(x) /\ requested[1] = D(10)
            \/ LexLE(parseWindowsVersion(Truncated(x, i)), requested)

C6_Witness ==
    /\ Returned
    /\ x = Win(<<"1", "0", ".", "0", ".", "1", "9", "0", "4", "4">>)
    /\ requested = V3(10, 0, 19044)
    /\ FirstCut(x) = 11
    /\ parseWindowsVersion(Truncated(x, 11)) = V3(10, 0, 0)
\* C1: every call returns requested <= (M, m, b mod 2^28) when the OS reports M >= 1.
C1_AtLeastIsLexLE ==
    (Returned /\ os[1] # <<0, 0>>) => result = LexLE(requested, FinalLive)

C1_Witness ==
    /\ calls = 2
    /\ os = <<D(10), D(0), <<61440, 19044>>>>
    /\ requested = V3(10, 0, 19045)
    /\ result = FALSE
    /\ <<V3(10, 0, 19044), TRUE>> \in answers

\* C5: with M >= 1 the OS is queried once, on the first call, the live triple
\* stays what that query made it, and equal requests get equal answers.
C5_LoadedOnce ==
    os[1] # <<0, 0>> =>
        /\ queries = IF Returned THEN 1 ELSE 0
        /\ Returned => live = FinalLive
        /\ \A a, b \in answers : a[1] = b[1] => a[2] = b[2]

C5_Witness ==
    /\ calls = 2
    /\ queries = 1
    /\ os[1] = D(6)
    /\ answers = {<<V3(6, 2, 0), FALSE>>}

Done(t) == pc[t] = "done"

Wrong(t) == res[t] # LexLE(req[t], FinalLive)

\* C7: a first call racing with another can return something other than
\* requested <= final live triple, and only by comparing against a triple whose
\* minor or build is not yet stored or whose build is not yet masked.
C7_RaceReadsPartialTriple ==
    /\ \A t \in Threads :
          (Done(t) /\ Wrong(t)) =>
              /\ obs[t] # FinalLive
              /\ obs[t][1] = os[1]
              /\ obs[t][2] \in {<<0, 0>>, os[2]}
              /\ obs[t][3] \in {<<0, 0>>, os[3], FinalLive[3]}
    /\ (\A t \in Threads : Done(t)) => live = FinalLive

C7_Witness ==
    \E t \in Threads :
        /\ Done(t)
        /\ ~didLoad[t]
        /\ obs[t][1] # <<0, 0>>
        /\ obs[t] # FinalLive
        /\ Wrong(t)

====
